---- MODULE Spec2Model ----
(***************************************************************************)
(* A model of threshold_crypto's src/lib.rs: BLS signatures, the           *)
(* ElGamal-style encryption with its pairing validity check, the key sets  *)
(* and Lagrange interpolation in the exponent.                             *)
(*                                                                         *)
(* The curve library is modelled algebraically.  Fr is a prime field, here *)
(* of a small characteristic.  G1 is cyclic of that order and every        *)
(* element is written as its multiple of the generator G1Affine::one().    *)
(* G2 elements are linear combinations over Fr of the points hash_g2       *)
(* returns, one independent point per distinct hash input (SHA3-256 and    *)
(* the ChaCha expansion taken as collision free, and G2's random draw      *)
(* never returning the identity).  The pairing is bilinear into the same   *)
(* combinations.                                                           *)
(***************************************************************************)
EXTENDS Integers, Sequences, FiniteSets, TLC

(***************************************************************************)
(* Bounds of the model.                                                    *)
(***************************************************************************)
\* Short messages are all byte strings over ByteVals up to this length.
MaxMsgLen == 2
\* Polynomials of degree 0..MaxThreshold.
MaxThreshold == 1
\* External share indices 0..MaxIndex.
MaxIndex == 3

(***************************************************************************)
(* Option and Result values.                                               *)
(***************************************************************************)
None == <<"None">>
Some(v) == <<"Some", v>>
IsSome(o) == o[1] = "Some"
Ok(v) == <<"Ok", v>>
Err(e) == <<"Err", e>>
IsOk(r) == r[1] = "Ok"
IsErr(r, e) == r[1] = "Err" /\ r[2] = e
Panic(m) == <<"Panic", m>>
IsPanic(r) == r[1] = "Panic"
\* The value of a variable no call has set yet.
Unset == <<"Unset">>
IsUnset(x) == x = Unset

Min(a, b) == IF a <= b THEN a ELSE b

(***************************************************************************)
(* pairing::bls12_381::Fr, the scalar field.                               *)
(***************************************************************************)
FrModulus == 7
Fr == 0..(FrModulus - 1)
FrZero == 0
FrOne == 1
FrAdd(a, b) == (a + b) % FrModulus
FrSub(a, b) == (a - b + FrModulus) % FrModulus
FrMul(a, b) == (a * b) % FrModulus
\* Field::inverse: None for zero.
FrInverse(a) ==
    IF a = 0 THEN None ELSE Some(CHOOSE y \in Fr : FrMul(a, y) = 1)

(***************************************************************************)
(* G1: the multiples of the generator.                                     *)
(***************************************************************************)
G1 == Fr
G1One == 1
G1Zero == 0
G1Add(p, q) == FrAdd(p, q)
G1Mul(p, s) == FrMul(p, s)

(***************************************************************************)
(* G2: finite maps from hash inputs to non-zero coefficients.              *)
(***************************************************************************)
G2Zero == [x \in {} |-> 0]
G2Norm(f) == [x \in {y \in DOMAIN f : f[y] # 0} |-> f[x]]
G2Coeff(p, x) == IF x \in DOMAIN p THEN p[x] ELSE 0
G2Add(p, q) ==
    G2Norm([x \in (DOMAIN p) \cup (DOMAIN q) |->
                FrAdd(G2Coeff(p, x), G2Coeff(q, x))])
G2Mul(p, s) == G2Norm([x \in DOMAIN p |-> FrMul(p[x], s)])
\* The point a ChaCha stream seeded with the digest of `input` yields.
G2FromHash(input) == [x \in {input} |-> 1]

\* Bls12::pairing(p, q), p in G1 and q in G2.
pairing(p, q) == G2Mul(q, p)

(***************************************************************************)
(* Byte strings.                                                           *)
(***************************************************************************)
ByteVals == {0, 255}
RECURSIVE BytesOfLen(_)
BytesOfLen(n) ==
    IF n = 0 THEN {<<>>}
    ELSE {Append(s, b) : s \in BytesOfLen(n - 1), b \in ByteVals}
ShortMsgs == UNION {BytesOfLen(n) : n \in 0..MaxMsgLen}

RECURSIVE XorBits(_, _, _)
XorBits(a, b, n) ==
    IF n = 0 THEN 0
    ELSE (((a % 2) + (b % 2)) % 2) + 2 * XorBits(a \div 2, b \div 2, n - 1)
ByteXor(a, b) == XorBits(a, b, 8)

\* Returns the bitwise xor.
xor_vec(x, y) == [i \in 1..Min(Len(x), Len(y)) |-> ByteXor(x[i], y[i])]

(***************************************************************************)
(* The hashing suite.                                                      *)
(***************************************************************************)
\* Messages longer than this are replaced by their digest in hash_g1_g2.
HashThreshold == 64
\* The length of a SHA3-256 digest.
DigestLen == 32
\* The length of a compressed G1 point.
G1CompressedLen == 48

\* tiny_keccak::sha3_256: a stand-in digest of DigestLen bytes, determined by
\* the length of its input and the bytes at DigestLen places of it (see
\* DigestInjective).
sha3_256(s) ==
    LET n == Len(s)
        at(i) == IF n = 0 THEN 0 ELSE s[1 + ((i * 7) % n)]
    IN  [i \in 1..DigestLen |-> (at(i) * 3 + n + i) % 256]

\* g1.into_affine().into_compressed(): a fixed-length encoding of the point.
into_compressed(p) ==
    [i \in 1..G1CompressedLen |-> IF i = 1 THEN 128 + p ELSE 0]

\* Returns a hash of the given message in G2.
hash_g2(msg) == G2FromHash(msg)

\* Returns a hash of the group element and message, in the second group.
hash_g1_g2(g1, msg) ==
    LET m == IF Len(msg) > HashThreshold THEN sha3_256(msg) ELSE msg
    IN  hash_g2(m \o into_compressed(g1))

\* One byte of the ChaCha stream seeded with the digest of compressed(g1).
StreamByte(g1, i) == (g1 * 37 + i * 11 + 5) % 256
\* Returns a hash of the group element with the specified length in bytes.
hash_bytes(g1, len) == [i \in 1..len |-> StreamByte(g1, i)]

(***************************************************************************)
(* PublicKey, SecretKey, Signature.                                        *)
(***************************************************************************)
\* Returns `true` if the signature matches the element of G2.
verify_g2_swapped(pk, sig, hash) == pairing(pk, sig) = pairing(G1One, hash)
verify_g2(pk, sig, hash) == pairing(pk, hash) = pairing(G1One, sig)

\* Returns `true` if the signature matches the message.
verify(pk, sig, msg) == verify_g2(pk, sig, hash_g2(msg))

\* Returns the matching public key.
public_key(sk) == G1Mul(G1One, sk)

\* Signs the given element of G2.
sign_g2_offByOne(sk, hash) == G2Mul(hash, FrAdd(sk, FrOne))
sign_g2(sk, hash) == G2Mul(hash, sk)

\* Signs the given message.
sign(sk, msg) == sign_g2(sk, hash_g2(msg))

(***************************************************************************)
(* Ciphertext, encryption and decryption.                                  *)
(***************************************************************************)
Ciphertext(u, v, w) == [u |-> u, v |-> v, w |-> w]

\* Encrypts the message; r is the scalar drawn from OsRng.
encrypt_hashesPlaintext(pk, msg, r) ==
    LET u == G1Mul(G1One, r)
        g == G1Mul(pk, r)
        v == xor_vec(hash_bytes(g, Len(msg)), msg)
        w == G2Mul(hash_g1_g2(u, msg), r)
    IN  Ciphertext(u, v, w)
encrypt(pk, msg, r) ==
    LET u == G1Mul(G1One, r)
        g == G1Mul(pk, r)
        v == xor_vec(hash_bytes(g, Len(msg)), msg)
        w == G2Mul(hash_g1_g2(u, v), r)
    IN  Ciphertext(u, v, w)

\* Returns `true` if this is a valid ciphertext.
Ciphertext_verify(ct) ==
    pairing(G1One, ct.w) = pairing(ct.u, hash_g1_g2(ct.u, ct.v))

\* Returns the decrypted text, or `None`, if the ciphertext isn't valid.
decrypt(sk, ct) ==
    IF ~Ciphertext_verify(ct) THEN None
    ELSE LET g == G1Mul(ct.u, sk)
         IN  Some(xor_vec(hash_bytes(g, Len(ct.v)), ct.v))

\* Returns a decryption share, without validating the ciphertext.
decrypt_share_no_verify(sk, ct) == G1Mul(ct.u, sk)

\* Returns a decryption share, or `None`, if the ciphertext isn't valid.
decrypt_share_unchecked(sk, ct) == Some(decrypt_share_no_verify(sk, ct))
decrypt_share(sk, ct) ==
    IF ~Ciphertext_verify(ct) THEN None
    ELSE Some(decrypt_share_no_verify(sk, ct))


(***************************************************************************)
(* Polynomials, commitments and the index convention.                      *)
(***************************************************************************)
\* External share indices: machine integers, all below the characteristic
\* of Fr, so that i + 1 never wraps to zero.
Indices == {i \in 0..MaxIndex : i + 1 < FrModulus}

\* IntoFr::into_fr for a non-negative integer.
into_fr(x) == x % FrModulus

into_fr_noOffset(x) == into_fr(x)
into_fr_plus_1(x) == FrAdd(FrOne, into_fr(x))

\* Poly: the coefficients c_0..c_t, poly[k] holding c_(k-1).
Polys(t) == [1..(t + 1) -> Fr]
Poly_degree(poly) == Len(poly) - 1
\* Poly::evaluate, by Horner's method.
Poly_evaluate(poly, x) ==
    LET h[k \in 0..Len(poly)] ==
            IF k = 0 THEN FrZero
            ELSE FrAdd(FrMul(h[k - 1], x), poly[Len(poly) + 1 - k])
    IN  h[Len(poly)]
\* Poly::commitment: every coefficient times the generator of G1.
Poly_commitment(poly) == [k \in 1..Len(poly) |-> G1Mul(G1One, poly[k])]
Commitment_degree(commit) == Len(commit) - 1
\* Commitment::evaluate, by Horner's method in G1.
Commitment_evaluate(commit, x) ==
    LET h[k \in 0..Len(commit)] ==
            IF k = 0 THEN G1Zero
            ELSE G1Add(G1Mul(h[k - 1], x), commit[Len(commit) + 1 - k])
    IN  h[Len(commit)]

(***************************************************************************)
(* Lagrange interpolation in the exponent.  items is a sequence of pairs   *)
(* <<index, point>>; C names the group, "G1" or "G2", the points are in.   *)
(***************************************************************************)
CZero(C) == IF C = "G1" THEN G1Zero ELSE G2Zero
CAdd(C, p, q) == IF C = "G1" THEN G1Add(p, q) ELSE G2Add(p, q)
CMul(C, p, s) == IF C = "G1" THEN G1Mul(p, s) ELSE G2Mul(p, s)

\* The value at 0 of the Lagrange polynomial of the k-th of the first t
\* samples: Ok(l0), or the panic of expect("indices are different").
LagrangeAtZero_numeratorX(t, samples, k) ==
    LET x == samples[k][1]
        l[j \in 0..t] ==
            IF j = 0 THEN Ok(FrOne)
            ELSE LET prev == l[j - 1]
                     x0 == samples[j][1]
                     denom == FrSub(x0, x)
                     inv == FrInverse(denom)
                 IN  IF ~IsOk(prev) \/ x0 = x THEN prev
                     ELSE IF ~IsSome(inv) THEN Panic("indices are different")
                     ELSE Ok(FrMul(FrMul(prev[2], x), inv[2]))
    IN  l[t]
LagrangeAtZero(t, samples, k) ==
    LET x == samples[k][1]
        l[j \in 0..t] ==
            IF j = 0 THEN Ok(FrOne)
            ELSE LET prev == l[j - 1]
                     x0 == samples[j][1]
                     denom == FrSub(x0, x)
                     inv == FrInverse(denom)
                 IN  IF ~IsOk(prev) \/ x0 = x THEN prev
                     ELSE IF ~IsSome(inv) THEN Panic("indices are different")
                     ELSE Ok(FrMul(FrMul(prev[2], x0), inv[2]))
    IN  l[t]

interpolate_allSamples(t, items, C) ==
    LET samples == [k \in 1..Len(items) |->
                        <<into_fr_plus_1(items[k][1]), items[k][2]>>]
        n == Len(samples)
        loop[k \in 0..n] ==
            IF k = 0 THEN Ok(CZero(C))
            ELSE LET prev == loop[k - 1]
                 IN  IF ~IsOk(prev) THEN prev
                     ELSE IF \E j \in 1..(k - 1) :
                                samples[j][1] = samples[k][1]
                          THEN Err("DuplicateEntry")
                     ELSE LET l0 == LagrangeAtZero(n, samples, k)
                          IN  IF ~IsOk(l0) THEN l0
                              ELSE Ok(CAdd(C, prev[2],
                                           CMul(C, samples[k][2], l0[2])))
    IN  IF Len(samples) < t THEN Err("NotEnoughShares") ELSE loop[n]

\* Given t samples (i - 1, f(i) * g) for a polynomial f of degree t - 1,
\* returns f(0) * g.
interpolate(t, items, C) ==
    LET samples == [k \in 1..Len(items) |->
                        <<into_fr_plus_1(items[k][1]), items[k][2]>>]
        loop[k \in 0..t] ==
            IF k = 0 THEN Ok(CZero(C))
            ELSE LET prev == loop[k - 1]
                 IN  IF ~IsOk(prev) THEN prev
                     ELSE IF \E j \in 1..(k - 1) :
                                samples[j][1] = samples[k][1]
                          THEN Err("DuplicateEntry")
                     ELSE LET l0 == LagrangeAtZero(t, samples, k)
                          IN  IF ~IsOk(l0) THEN l0
                              ELSE Ok(CAdd(C, prev[2],
                                           CMul(C, samples[k][2], l0[2])))
    IN  IF Len(samples) < t THEN Err("NotEnoughShares") ELSE loop[t]

(***************************************************************************)
(* PublicKeySet (a Commitment) and SecretKeySet (a Poly).                  *)
(***************************************************************************)
PublicKeySet_threshold(commit) == Commitment_degree(commit)

\* Returns the public key.
PublicKeySet_public_key(commit) == commit[1]

\* Returns the i-th public key share.
PublicKeySet_public_key_share(commit, i) ==
    Commitment_evaluate(commit, into_fr_plus_1(i))

\* Combines the shares into a signature that can be verified with the main
\* public key.
combine_signatures_degree(commit, shares) ==
    interpolate(Commitment_degree(commit), shares, "G2")
combine_signatures(commit, shares) ==
    interpolate(Commitment_degree(commit) + 1, shares, "G2")

\* Combines the shares to decrypt the ciphertext.
PublicKeySet_decrypt_degree(commit, shares, c) ==
    LET g == interpolate(Commitment_degree(commit), shares, "G1")
    IN  IF ~IsOk(g) THEN g
        ELSE Ok(xor_vec(hash_bytes(g[2], Len(c.v)), c.v))
PublicKeySet_decrypt(commit, shares, c) ==
    LET g == interpolate(Commitment_degree(commit) + 1, shares, "G1")
    IN  IF ~IsOk(g) THEN g
        ELSE Ok(xor_vec(hash_bytes(g[2], Len(c.v)), c.v))

SecretKeySet_threshold(poly) == Poly_degree(poly)

\* Returns the i-th secret key share: the scalar the SecretKeyShare holds.
secret_key_share(poly, i) == Poly_evaluate(poly, into_fr_plus_1(i))

\* Returns the corresponding public key set.
public_keys(poly) == Poly_commitment(poly)

\* Returns the secret master key (test only).
secret_key(poly) == Poly_evaluate(poly, FrZero)

\* SecretKeyShare::public_key_share
public_key_share(sk) == public_key(sk)

(***************************************************************************)
(* State.                                                                  *)
(***************************************************************************)
VARIABLES
    pc,          \* the step the scenario is at
    \* signatures (test_simple_sig)
    sk0,         \* the key whose public key verifies
    sk1,         \* another key
    pk0,         \* sk0.public_key()
    signer,      \* the secret key of the last sign call
    signed,      \* the message of the last sign call
    sig,         \* the Signature the last sign call returned
    checked,     \* the message of the last verify call
    verdict,     \* what pk0.verify(sig, checked) returned
    \* encryption (test_simple_enc)
    encSk,       \* the receiver's secret key
    plain,       \* the message encrypted
    ct0,         \* the Ciphertext encrypt returned
    ct,          \* the Ciphertext handed to the receiver
    valid,       \* what ct.verify() returned
    pt,          \* what encSk.decrypt(ct) returned
    dshare,      \* what SecretKeyShare(encSk).decrypt_share(ct) returned
    \* interpolation
    f,           \* the polynomial the samples are taken from
    need,        \* interpolate's first argument, the number of samples used
    items,       \* interpolate's second argument, pairs <<index, point>>
    result,      \* what interpolate(need, items) returned
    resultFirst, \* what interpolate returned for the first `need` items alone
    \* key sets (test_threshold_sig, test_threshold_enc)
    poly,        \* the SecretKeySet's polynomial
    pkSet,       \* sk_set.public_keys(), a Commitment
    tmsg,        \* the message signed or encrypted
    tct,         \* the Ciphertext of tmsg under the master public key
    shares,      \* the pairs <<i, share>> collected from participants
    skShare,     \* the scalar of the last sk_set.secret_key_share(i)
    lastIdx,     \* that i
    pkShare,     \* its public_key_share()
    pkSetShare,  \* pk_set.public_key_share(i)
    shareOk,     \* what pk_set.public_key_share(i).verify(share, tmsg) returned
    combined,    \* what combine_signatures or PublicKeySet::decrypt returned
    firstSig,    \* what combine_signatures returned for an earlier set
    firstIdx,    \* the indices of that earlier set
    masterOk,    \* what pk_set.public_key().verify(combined, tmsg) returned
    \* secret memory (SecretKey, ContainsSecret)
    env,         \* the environment variable MLOCK_SECRETS
    SHOULD_MLOCK_SECRETS, \* the lazy static: Unset, or Some(b) once used
    heap,        \* the scalar each heap slot holds, live or released
    allocated,   \* the heap slots that are allocated
    locked,      \* the pages the OS holds locked
    keys,        \* the live SecretKeys: the slot each one's Box points to
    fr,          \* the caller's scalar a constructor is given by address
    op,          \* the operation in progress and the step it is at
    log,         \* the calls the operation in progress has made so far
    outcome,     \* what the last operation returned
    panicking    \* TRUE once a panic unwinds the thread

sigVars == <<sk0, sk1, pk0, signer, signed, sig, checked, verdict>>
encVars == <<encSk, plain, ct0, ct, valid, pt, dshare>>
interpVars == <<f, need, items, result, resultFirst>>
setVars == <<poly, pkSet, tmsg, tct, shares, skShare, lastIdx, pkShare,
             pkSetShare, shareOk, combined, firstSig, firstIdx, masterOk>>
memVars == <<env, SHOULD_MLOCK_SECRETS, heap, allocated, locked, keys, fr, op,
             log, outcome, panicking>>
vars == <<pc, sigVars, encVars, interpVars, setVars, memVars>>

\* What the actions of one scenario leave alone.
notSig == <<encVars, interpVars, setVars, memVars>>
notEnc == <<sigVars, interpVars, setVars, memVars>>
notInterp == <<sigVars, encVars, setVars, memVars>>
notSet == <<sigVars, encVars, interpVars, memVars>>
notMem == <<pc, sigVars, encVars, interpVars, setVars>>

SigIdle ==
    /\ sk0 = Unset /\ sk1 = Unset /\ pk0 = Unset /\ signer = Unset
    /\ signed = Unset /\ sig = Unset /\ checked = Unset /\ verdict = Unset
EncIdle ==
    /\ encSk = Unset /\ plain = Unset /\ ct0 = Unset /\ ct = Unset
    /\ valid = Unset /\ pt = Unset /\ dshare = Unset
InterpIdle ==
    /\ f = Unset /\ need = Unset /\ items = Unset /\ result = Unset
    /\ resultFirst = Unset
SetIdle ==
    /\ poly = Unset /\ pkSet = Unset /\ tmsg = Unset /\ tct = Unset
    /\ shares = Unset /\ skShare = Unset /\ lastIdx = Unset /\ pkShare = Unset
    /\ pkSetShare = Unset /\ shareOk = Unset /\ combined = Unset
    /\ firstSig = Unset /\ firstIdx = Unset /\ masterOk = Unset
MemIdle ==
    /\ env = Unset /\ SHOULD_MLOCK_SECRETS = Unset /\ heap = Unset
    /\ allocated = Unset /\ locked = Unset /\ keys = Unset /\ fr = Unset
    /\ op = Unset /\ log = Unset /\ outcome = Unset /\ panicking = Unset

(***************************************************************************)
(* Signatures: two keys, pk0 = sk0.public_key(), a signature by either key *)
(* on any message, verified under pk0 against any message.                 *)
(***************************************************************************)
SigInit ==
    /\ pc = "keys"
    /\ sk0 \in Fr
    /\ sk1 \in Fr
    /\ pk0 = Unset
    /\ signer = Unset
    /\ signed = Unset
    /\ sig = Unset
    /\ checked = Unset
    /\ verdict = Unset
    /\ EncIdle /\ InterpIdle /\ SetIdle /\ MemIdle

PublicKey ==
    /\ pc = "keys"
    /\ pk0' = public_key(sk0)
    /\ pc' = "sign"
    /\ UNCHANGED <<sk0, sk1, signer, signed, sig, checked, verdict, notSig>>

Sign ==
    /\ pc = "sign"
    /\ \E sk \in {sk0, sk1}, msg \in ShortMsgs :
        /\ signer' = sk
        /\ signed' = msg
        /\ sig' = sign(sk, msg)
    /\ pc' = "verify"
    /\ UNCHANGED <<sk0, sk1, pk0, checked, verdict, notSig>>

Verify ==
    /\ pc = "verify"
    /\ \E msg \in ShortMsgs :
        /\ checked' = msg
        /\ verdict' = verify(pk0, sig, msg)
    /\ pc' = "done"
    /\ UNCHANGED <<sk0, sk1, pk0, signer, signed, sig, notSig>>

SigNext == PublicKey \/ Sign \/ Verify

SpecSig == SigInit /\ [][SigNext]_vars

(***************************************************************************)
(* C1 Signature correctness: a signature sk0 made on a message verifies    *)
(* under sk0's public key against that message.                            *)
(***************************************************************************)
C1_SignatureCorrect ==
    (pc = "done" /\ signer = sk0 /\ checked = signed) => verdict = TRUE

C1_Witness ==
    /\ pc = "done"
    /\ signer = sk0
    /\ sk0 # sk1
    /\ checked = signed
    /\ Len(signed) > 0
    /\ verdict = TRUE

(***************************************************************************)
(* C2 Signature soundness, as claimed: under pk0 a signature made by a     *)
(* different key on the same message does not verify, and a signature      *)
(* made by sk0 does not verify against a different message.                *)
(***************************************************************************)
C2_SoundnessAsClaimed ==
    pc = "done" =>
        /\ (signer # sk0 /\ checked = signed) => verdict = FALSE
        /\ (signer = sk0 /\ checked # signed) => verdict = FALSE

(***************************************************************************)
(* C2 Signature soundness, amended: a signature by a different key on the  *)
(* same message never verifies; a signature by sk0 against a message with  *)
(* a different hash_g2 image does not verify provided sk0 is not the zero  *)
(* scalar (the key SecretKey::default() makes).                            *)
(***************************************************************************)
C2_SoundnessNonZeroKey ==
    pc = "done" =>
        /\ (signer # sk0 /\ checked = signed) => verdict = FALSE
        /\ (signer = sk0 /\ sk0 # FrZero /\ hash_g2(checked) # hash_g2(signed))
               => verdict = FALSE

C2_Witness ==
    /\ pc = "done"
    /\ signer = sk0
    /\ sk0 # FrZero
    /\ checked # signed
    /\ verdict = FALSE

(***************************************************************************)
(* Encryption: a message encrypted to encSk's public key with randomness   *)
(* r; the receiver is handed that ciphertext or an altered one, checks it, *)
(* decrypts it and makes a decryption share from it.                       *)
(***************************************************************************)
\* Messages longer than the short ones, on both sides of HashThreshold.
LongMsgs ==
    {[i \in 1..n |-> b] : n \in {HashThreshold, HashThreshold + 1},
                          b \in ByteVals}
EncMsgs == ShortMsgs \cup LongMsgs

\* The byte strings an attacker puts in place of v.
AlteredV(v) ==
    (ShortMsgs \cup {[i \in 1..Len(v) |-> 0], sha3_256(v),
                     SubSeq(v, 1, Len(v) - 1)}) \ {v}
\* The ciphertexts the receiver may be handed for c.
Handed(c) ==
    {c}
    \cup {Ciphertext(c.u, v, c.w) : v \in AlteredV(c.v)}
    \cup {Ciphertext(u, c.v, c.w) : u \in {G1Zero, G1Add(c.u, G1One)} \ {c.u}}
    \cup {Ciphertext(c.u, c.v, w) :
            w \in {G2Zero, G2Add(c.w, hash_g1_g2(c.u, c.v))} \ {c.w}}

EncInit ==
    /\ pc = "encrypt"
    /\ encSk \in Fr
    /\ plain = Unset
    /\ ct0 = Unset
    /\ ct = Unset
    /\ valid = Unset
    /\ pt = Unset
    /\ dshare = Unset
    /\ SigIdle /\ InterpIdle /\ SetIdle /\ MemIdle

Encrypt ==
    /\ pc = "encrypt"
    /\ \E msg \in EncMsgs, r \in Fr :
        /\ plain' = msg
        /\ ct0' = encrypt(public_key(encSk), msg, r)
    /\ pc' = "hand"
    /\ UNCHANGED <<encSk, ct, valid, pt, dshare, notEnc>>

Hand ==
    /\ pc = "hand"
    /\ ct' \in Handed(ct0)
    /\ pc' = "check"
    /\ UNCHANGED <<encSk, plain, ct0, valid, pt, dshare, notEnc>>

CiphertextVerify ==
    /\ pc = "check"
    /\ valid' = Ciphertext_verify(ct)
    /\ pc' = "decrypt"
    /\ UNCHANGED <<encSk, plain, ct0, ct, pt, dshare, notEnc>>

Decrypt ==
    /\ pc = "decrypt"
    /\ pt' = decrypt(encSk, ct)
    /\ pc' = "share"
    /\ UNCHANGED <<encSk, plain, ct0, ct, valid, dshare, notEnc>>

DecryptShare ==
    /\ pc = "share"
    /\ dshare' = decrypt_share(encSk, ct)
    /\ pc' = "done"
    /\ UNCHANGED <<encSk, plain, ct0, ct, valid, pt, notEnc>>

EncNext == Encrypt \/ Hand \/ CiphertextVerify \/ Decrypt \/ DecryptShare

SpecEnc == EncInit /\ [][EncNext]_vars

\* The stand-in digest is collision free on the byte strings the model uses,
\* and no digest is one of the model's other byte strings.
DigestInjective ==
    pc = "hand" =>
        \A m \in LongMsgs \cup {ct0.v} :
            /\ sha3_256(m) \notin ShortMsgs \cup LongMsgs
            /\ (m # ct0.v /\ Len(ct0.v) > HashThreshold)
                   => sha3_256(m) # sha3_256(ct0.v)

(***************************************************************************)
(* C4 Encryption round-trip: the ciphertext encrypt returns verifies and   *)
(* the receiver's key decrypts it to the message, whatever the randomness. *)
(***************************************************************************)
C4_RoundTrip ==
    (pc = "done" /\ ct = ct0) => (valid = TRUE /\ pt = Some(plain))

C4_Witness ==
    /\ pc = "done"
    /\ ct = ct0
    /\ Len(plain) > HashThreshold
    /\ ct0.u # G1Zero
    /\ valid = TRUE
    /\ pt = Some(plain)

(***************************************************************************)
(* C5 Ciphertext non-malleability, as claimed: a valid ciphertext with its *)
(* v replaced by any other byte string does not verify and decrypts to     *)
(* None.  Stated for the ciphertexts whose u is not the identity, the ones *)
(* encrypt returns for a non-zero draw (with u and w the identity every v  *)
(* verifies: C5_IdentityCase).                                             *)
(***************************************************************************)
C5_NonMalleable ==
    (pc = "done" /\ Ciphertext_verify(ct0) /\ ct0.u # G1Zero
        /\ ct.u = ct0.u /\ ct.w = ct0.w /\ ct.v # ct0.v)
    => (valid = FALSE /\ pt = None)

\* The same for the ciphertext encrypt returns when the draw is zero.
C5_IdentityCase ==
    (pc = "done" /\ Ciphertext_verify(ct0) /\ ct0.u = G1Zero
        /\ ct.u = ct0.u /\ ct.w = ct0.w /\ ct.v # ct0.v)
    => (valid = FALSE /\ pt = None)

\* What does hold: replacing v by a string other than the digest of a long
\* v, or a long v by a string with another digest, is detected.
C5_DetectedUnlessDigest ==
    (pc = "done" /\ Ciphertext_verify(ct0) /\ ct0.u # G1Zero
        /\ ct.u = ct0.u /\ ct.w = ct0.w /\ ct.v # ct0.v
        /\ ~(Len(ct0.v) > HashThreshold /\ ct.v = sha3_256(ct0.v)))
    => (valid = FALSE /\ pt = None)

(***************************************************************************)
(* C10 Invalid ciphertext yields absence: decrypt and decrypt_share return *)
(* None for a ciphertext that does not verify; for one that does, both     *)
(* return Some, and the share is encSk times u, what                       *)
(* decrypt_share_no_verify returns.                                        *)
(***************************************************************************)
C10_InvalidIsNone ==
    pc = "done" =>
        /\ valid = FALSE => (pt = None /\ dshare = None)
        /\ valid = TRUE =>
            /\ IsSome(pt)
            /\ dshare = Some(decrypt_share_no_verify(encSk, ct))
            /\ dshare = Some(G1Mul(ct.u, encSk))

C10_Witness ==
    /\ pc = "done"
    /\ valid = FALSE
    /\ ct.v # ct0.v
    /\ pt = None
    /\ dshare = None

(***************************************************************************)
(* Interpolation on any list of samples: `need` samples are asked for and  *)
(* the caller supplies a list of any length up to need + 1, with any       *)
(* indices (repeated or not) and any points.                               *)
(***************************************************************************)
MaxNeed == MaxThreshold + 2
SamplePoints == {G1One, G1Mul(G1One, 3)}

\* The scalar an external index stands for.
Mapped(i) == (i + 1) % FrModulus

InterpInit ==
    /\ pc = "collect"
    /\ need \in 1..MaxNeed
    /\ items = <<>>
    /\ f = Unset
    /\ result = Unset
    /\ resultFirst = Unset
    /\ SigIdle /\ EncIdle /\ SetIdle /\ MemIdle

AddSample ==
    /\ pc = "collect"
    /\ Len(items) < need + 1
    /\ \E i \in Indices, p \in SamplePoints : items' = Append(items, <<i, p>>)
    /\ UNCHANGED <<pc, f, need, result, resultFirst, notInterp>>

Interpolate ==
    /\ pc = "collect"
    /\ result' = interpolate(need, items, "G1")
    /\ resultFirst' = IF Len(items) >= need
                      THEN interpolate(need, SubSeq(items, 1, need), "G1")
                      ELSE Unset
    /\ pc' = "done"
    /\ UNCHANGED <<f, need, items, notInterp>>

InterpNext == AddSample \/ Interpolate

SpecInterp == InterpInit /\ [][InterpNext]_vars

\* Two of the first `need` samples carry the same mapped index.
DuplicateAmongFirst ==
    \E j, k \in 1..need :
        j < k /\ Mapped(items[j][1]) = Mapped(items[k][1])

(***************************************************************************)
(* C7 Interpolation error outcomes: NotEnoughShares exactly when fewer     *)
(* than `need` samples are supplied, whatever their indices; otherwise     *)
(* DuplicateEntry exactly when two of the first `need` samples carry the   *)
(* same mapped index; otherwise Ok.  The samples after the first `need`    *)
(* change neither the outcome nor the value.                               *)
(***************************************************************************)
C7_InterpolateOutcomes ==
    pc = "done" =>
        /\ IsErr(result, "NotEnoughShares") <=> Len(items) < need
        /\ Len(items) >= need =>
            /\ IsErr(result, "DuplicateEntry") <=> DuplicateAmongFirst
            /\ ~DuplicateAmongFirst => IsOk(result)
            /\ result = resultFirst

\* One sample more than asked for, repeating the index of the first and
\* carrying another point, and the result is Ok.
C7_Witness ==
    /\ pc = "done"
    /\ need >= 2
    /\ Len(items) = need + 1
    /\ items[need + 1][1] = items[1][1]
    /\ items[need + 1][2] # items[1][2]
    /\ IsOk(result)

\* Fewer samples than asked for, two of them with the same index.
C7_ShortWithDuplicate ==
    /\ pc = "done"
    /\ Len(items) = 2
    /\ need > 2
    /\ items[1][1] = items[2][1]
    /\ IsErr(result, "NotEnoughShares")

(***************************************************************************)
(* Interpolation of a polynomial: a polynomial f of degree t and t + 1     *)
(* samples (i, f(i + 1) * G1) at distinct external indices, in any order.  *)
(***************************************************************************)
AllPolys == UNION {Polys(t) : t \in 0..MaxThreshold}

LagrangeInit ==
    /\ pc = "sample"
    /\ f \in AllPolys
    /\ need = Len(f)
    /\ items = <<>>
    /\ result = Unset
    /\ resultFirst = Unset
    /\ SigIdle /\ EncIdle /\ SetIdle /\ MemIdle

Sample ==
    /\ pc = "sample"
    /\ Len(items) < need
    /\ \E i \in Indices \ {items[k][1] : k \in 1..Len(items)} :
        items' = Append(items,
                        <<i, G1Mul(G1One, Poly_evaluate(f, Mapped(i)))>>)
    /\ UNCHANGED <<pc, f, need, result, resultFirst, notInterp>>

Reconstruct ==
    /\ pc = "sample"
    /\ Len(items) = need
    /\ result' = interpolate(need, items, "G1")
    /\ pc' = "done"
    /\ UNCHANGED <<f, need, items, resultFirst, notInterp>>

LagrangeNext == Sample \/ Reconstruct

SpecLagrange == LagrangeInit /\ [][LagrangeNext]_vars

RECURSIVE FrProduct(_)
FrProduct(xs) ==
    IF Len(xs) = 0 THEN FrOne ELSE FrMul(xs[1], FrProduct(Tail(xs)))
\* The sequence xs without its k-th element.
Without(xs, k) == SubSeq(xs, 1, k - 1) \o SubSeq(xs, k + 1, Len(xs))

(***************************************************************************)
(* C8 Interpolation correctness: from t + 1 samples of f at distinct       *)
(* indices interpolate returns Ok(f(0) * G1); each Lagrange value l_i(0)   *)
(* is computed without a panic and is the product over j # i of            *)
(* x_j * (x_j - x_i)^(-1).                                                 *)
(***************************************************************************)
C8_InterpolationCorrect ==
    pc = "done" =>
        LET xs == [k \in 1..need |-> Mapped(items[k][1])]
            samples == [k \in 1..need |-> <<xs[k], items[k][2]>>]
        IN  /\ result = Ok(G1Mul(G1One, f[1]))
            /\ \A k \in 1..need :
                LET l0 == LagrangeAtZero(need, samples, k)
                    others == Without(xs, k)
                    diffs == [j \in 1..Len(others) |-> FrSub(others[j], xs[k])]
                IN  /\ IsOk(l0)
                    /\ FrProduct(diffs) # FrZero
                    /\ FrMul(l0[2], FrProduct(diffs)) = FrProduct(others)

C8_Witness ==
    /\ pc = "done"
    /\ need = MaxThreshold + 1
    /\ f[need] # FrZero
    /\ f[1] # FrZero
    /\ items[1][1] > items[2][1]
    /\ result = Ok(G1Mul(G1One, f[1]))

(***************************************************************************)
(* Key sets.  A dealer's polynomial of degree t, its public key set, and   *)
(* participants with distinct indices contributing shares one by one.      *)
(***************************************************************************)
SetMsgs == {<<0>>, <<255, 0>>}
SetDraws == {FrZero, FrOne, FrMul(3, FrOne)}
ShareIndices == {shares[k][1] : k \in 1..Len(shares)}

SetInit ==
    /\ pc = "deal"
    /\ poly \in AllPolys
    /\ tmsg \in SetMsgs
    /\ pkSet = Unset
    /\ tct = Unset
    /\ shares = <<>>
    /\ skShare = Unset
    /\ lastIdx = Unset
    /\ pkShare = Unset
    /\ pkSetShare = Unset
    /\ shareOk = Unset
    /\ combined = Unset
    /\ firstSig = Unset
    /\ firstIdx = {}
    /\ masterOk = Unset
    /\ SigIdle /\ EncIdle /\ InterpIdle /\ MemIdle

PublicKeys ==
    /\ pc = "deal"
    /\ pkSet' = public_keys(poly)
    /\ pc' = "dealt"
    /\ UNCHANGED <<poly, tmsg, tct, shares, skShare, lastIdx, pkShare,
                   pkSetShare, shareOk, combined, firstSig, firstIdx,
                   masterOk, notSet>>

(***************************************************************************)
(* Threshold signatures (test_threshold_sig): t + 1 participants sign,     *)
(* the shares are combined, and then once more for a disjoint set of       *)
(* participants.                                                           *)
(***************************************************************************)
SignShare ==
    /\ pc \in {"dealt", "collect"}
    /\ Len(shares) < SecretKeySet_threshold(poly) + 1
    /\ \E i \in Indices \ (ShareIndices \cup firstIdx) :
        LET sk == secret_key_share(poly, i)
            share == sign(sk, tmsg)
            pks == PublicKeySet_public_key_share(pkSet, i)
        IN  /\ skShare' = sk
            /\ lastIdx' = i
            /\ pkShare' = public_key_share(sk)
            /\ pkSetShare' = pks
            /\ shareOk' = verify(pks, share, tmsg)
            /\ shares' = Append(shares, <<i, share>>)
    /\ pc' = "collect"
    /\ UNCHANGED <<poly, pkSet, tmsg, tct, combined, firstSig, firstIdx,
                   masterOk, notSet>>

CombineSignatures ==
    /\ pc = "collect"
    /\ Len(shares) = PublicKeySet_threshold(pkSet) + 1
    /\ LET sg == combine_signatures(pkSet, shares)
       IN  /\ combined' = sg
           /\ masterOk' = IF IsOk(sg)
                          THEN verify(PublicKeySet_public_key(pkSet), sg[2],
                                      tmsg)
                          ELSE FALSE
    /\ pc' = "combined"
    /\ UNCHANGED <<poly, pkSet, tmsg, tct, shares, skShare, lastIdx, pkShare,
                   pkSetShare, shareOk, firstSig, firstIdx, notSet>>

AnotherSet ==
    /\ pc = "combined"
    /\ firstIdx = {}
    /\ Cardinality(Indices \ ShareIndices) >= Len(shares)
    /\ firstSig' = combined
    /\ firstIdx' = ShareIndices
    /\ shares' = <<>>
    /\ combined' = Unset
    /\ masterOk' = Unset
    /\ pc' = "collect"
    /\ UNCHANGED <<poly, pkSet, tmsg, tct, skShare, lastIdx, pkShare,
                   pkSetShare, shareOk, notSet>>

SetSigNext == PublicKeys \/ SignShare \/ CombineSignatures \/ AnotherSet

SpecSetSig == SetInit /\ [][SetSigNext]_vars

(***************************************************************************)
(* C3 Threshold signature consistency: the signature shares of t + 1       *)
(* distinct indices combine to Ok(the signature the master secret f(0)     *)
(* makes), which verifies under the master public key and equals what an   *)
(* earlier, disjoint set of participants combined to.                      *)
(***************************************************************************)
C3_ThresholdSignature ==
    pc = "combined" =>
        /\ IsOk(combined)
        /\ combined[2] = sign(secret_key(poly), tmsg)
        /\ masterOk = TRUE
        /\ firstIdx # {} => combined = firstSig

C3_Witness ==
    /\ pc = "combined"
    /\ firstIdx # {}
    /\ firstIdx \cap ShareIndices = {}
    /\ Len(shares) = MaxThreshold + 1
    /\ poly[Len(poly)] # FrZero
    /\ poly[1] # FrZero
    /\ IsOk(combined)
    /\ combined = firstSig
    /\ masterOk = TRUE

(***************************************************************************)
(* C9 Index convention: secret_key_share(i) holds f(i + 1); its public key *)
(* share is pk_set.public_key_share(i), the commitment evaluated at i + 1; *)
(* the master public key is f(0) * G1; a share signed with                 *)
(* secret_key_share(i) verifies under public_key_share(i); and combining   *)
(* shares under their external indices gives the master's signature.       *)
(***************************************************************************)
C9_IndexConvention ==
    /\ pc # "deal" =>
        PublicKeySet_public_key(pkSet)
            = G1Mul(G1One, Poly_evaluate(poly, FrZero))
    /\ (pc \in {"collect", "combined"} /\ Len(shares) > 0) =>
        /\ skShare = Poly_evaluate(poly, Mapped(lastIdx))
        /\ pkShare = pkSetShare
        /\ pkSetShare = Commitment_evaluate(pkSet, Mapped(lastIdx))
        /\ pkSetShare = G1Mul(G1One, Poly_evaluate(poly, Mapped(lastIdx)))
        /\ shareOk = TRUE
    /\ pc = "combined" =>
        combined = Ok(sign(Poly_evaluate(poly, FrZero), tmsg))

C9_Witness ==
    /\ pc = "combined"
    /\ Len(poly) = MaxThreshold + 1
    /\ poly[Len(poly)] # FrZero
    /\ lastIdx = 0
    /\ skShare = Poly_evaluate(poly, FrOne)
    /\ skShare # Poly_evaluate(poly, FrZero)
    /\ shareOk = TRUE

(***************************************************************************)
(* Threshold decryption (test_threshold_enc): tmsg is encrypted to the     *)
(* master public key, up to t + 1 participants make decryption shares and  *)
(* the shares collected so far are combined.                               *)
(***************************************************************************)
EncryptToMaster ==
    /\ pc = "dealt"
    /\ \E r \in SetDraws :
        tct' = encrypt(PublicKeySet_public_key(pkSet), tmsg, r)
    /\ pc' = "collect"
    /\ UNCHANGED <<poly, pkSet, tmsg, shares, skShare, lastIdx, pkShare,
                   pkSetShare, shareOk, combined, firstSig, firstIdx,
                   masterOk, notSet>>

ShareDecrypt ==
    /\ pc = "collect"
    /\ Len(shares) < SecretKeySet_threshold(poly) + 1
    /\ \E i \in Indices \ ShareIndices :
        LET sk == secret_key_share(poly, i)
            share == decrypt_share(sk, tct)
        IN  /\ IsSome(share)
            /\ skShare' = sk
            /\ lastIdx' = i
            /\ shares' = Append(shares, <<i, share[2]>>)
    /\ UNCHANGED <<pc, poly, pkSet, tmsg, tct, pkShare, pkSetShare, shareOk,
                   combined, firstSig, firstIdx, masterOk, notSet>>

CombineDecrypt ==
    /\ pc = "collect"
    /\ combined' = PublicKeySet_decrypt(pkSet, shares, tct)
    /\ pc' = "combined"
    /\ UNCHANGED <<poly, pkSet, tmsg, tct, shares, skShare, lastIdx, pkShare,
                   pkSetShare, shareOk, firstSig, firstIdx, masterOk, notSet>>

SetEncNext == PublicKeys \/ EncryptToMaster \/ ShareDecrypt \/ CombineDecrypt

SpecSetEnc == SetInit /\ [][SetEncNext]_vars

(***************************************************************************)
(* C6 Threshold decryption: the decryption shares of t + 1 distinct        *)
(* indices combine to Ok(the message); fewer than t + 1 shares combine to  *)
(* Err(NotEnoughShares).                                                   *)
(***************************************************************************)
C6_ThresholdDecryption ==
    pc = "combined" =>
        /\ Len(shares) = SecretKeySet_threshold(poly) + 1
               => combined = Ok(tmsg)
        /\ Len(shares) < SecretKeySet_threshold(poly) + 1
               => IsErr(combined, "NotEnoughShares")

C6_Witness ==
    /\ pc = "combined"
    /\ Len(shares) = MaxThreshold + 1
    /\ poly[Len(poly)] # FrZero
    /\ tct.u # G1Zero
    /\ shares[1][1] > shares[2][1]
    /\ combined = Ok(tmsg)

\* Fewer shares than the threshold asks for.
C6_TooFew ==
    /\ pc = "combined"
    /\ Len(shares) = Len(poly) - 1
    /\ Len(shares) > 0
    /\ IsErr(combined, "NotEnoughShares")

(***************************************************************************)
(* Secret memory: SecretKeys are created, cloned and dropped; each keeps   *)
(* its scalar in a heap slot that is locked while the key lives and        *)
(* zeroed when it dies.  The heap is a row of slots, several to a page;    *)
(* the OS locks and unlocks whole pages and keeps no count of the          *)
(* requests; either request may be refused.                                *)
(***************************************************************************)
MaxKeys == 2
SlotsPerPage == 2
FrBytes == 32

KeyIds == 1..MaxKeys
Slots == 1..(MaxKeys + 1)
PageOf(a) == (a - 1) \div SlotsPerPage
Pages == {PageOf(a) : a \in Slots}
NoSlot == 0

\* What MLOCK_SECRETS may hold: unset, or one of these strings.
EnvValues == {None, Some("true"), Some("false"), Some("0")}
ErrNos == {"ENOMEM", "EPERM"}
\* The scalars callers hand to from_mut_ptr and the ones rand draws.
MemScalars == {FrZero, FrMul(3, FrOne)}
MemDraws == {FrMul(5, FrOne)}
\* The polynomial of the SecretKeySet, 2 + x, and the shares asked of it.
MemPoly == <<FrMul(2, FrOne), FrOne>>
MemIndices == {0}

\* str::parse::<bool>
ParseBool(str) ==
    IF str = "true" THEN Ok(TRUE)
    ELSE IF str = "false" THEN Ok(FALSE)
    ELSE Err("ParseBoolError")

\* The initialiser of the lazy static SHOULD_MLOCK_SECRETS.
ReadShouldMlock(e) ==
    IF IsSome(e)
    THEN LET parsed == ParseBool(e[2])
         IN  IF IsOk(parsed) THEN parsed[2] ELSE TRUE
    ELSE TRUE

Deref_uncached(cache, e) == ReadShouldMlock(e)
\* *SHOULD_MLOCK_SECRETS: the first use runs the initialiser, later uses return
\* what it returned.
Deref(cache, e) == IF cache = Unset THEN ReadShouldMlock(e) ELSE cache[2]

Error_MlockFailed(errno, addr, n_bytes) ==
    Err(<<"MlockFailed", errno, addr, n_bytes>>)

NoOp ==
    [name |-> "none", step |-> "idle", slot |-> NoSlot, orig |-> FrZero,
     key |-> 0, err |-> "none"]
Constructors ==
    {"from_mut_ptr", "SecretKeyShare::from_mut_ptr", "default", "rand",
     "clone", "secret_key_share"}
\* The constructors that hand from_mut_ptr's error on to their caller; the
\* others panic with it.
Fallible ==
    {"from_mut_ptr", "SecretKeyShare::from_mut_ptr", "secret_key_share"}

LiveKeys == {k \in KeyIds : keys[k] # NoSlot}
FreeKeyIds == KeyIds \ LiveKeys
NextKeyId == CHOOSE k \in FreeKeyIds : \A j \in FreeKeyIds : k <= j

MemInit ==
    /\ pc = "mem"
    /\ env \in EnvValues
    /\ SHOULD_MLOCK_SECRETS = Unset
    /\ heap = [a \in Slots |-> FrZero]
    /\ allocated = {}
    /\ locked = {}
    /\ keys = [k \in KeyIds |-> NoSlot]
    /\ fr = FrZero
    /\ op = NoOp
    /\ log = <<>>
    /\ outcome = Unset
    /\ panicking = FALSE
    /\ SigIdle /\ EncIdle /\ InterpIdle /\ SetIdle

\* env::set_var("MLOCK_SECRETS", ..) or remove_var, between two operations.
SetEnv ==
    /\ op.step = "idle"
    /\ ~panicking
    /\ \E e \in EnvValues : e # env /\ env' = e
    /\ UNCHANGED <<SHOULD_MLOCK_SECRETS, heap, allocated, locked, keys, fr,
                   op, log, outcome, panicking, notMem>>

\* A constructor is entered with the caller's scalar v in the local `fr`.
Enter(name, v, k) ==
    /\ op.step = "idle"
    /\ ~panicking
    /\ FreeKeyIds # {}
    /\ fr' = v
    /\ op' = [name |-> name, step |-> "alloc", slot |-> NoSlot, orig |-> v,
              key |-> k, err |-> "none"]
    /\ log' = <<>>
    /\ outcome' = Unset
    /\ UNCHANGED <<env, SHOULD_MLOCK_SECRETS, heap, allocated, locked, keys,
                   panicking, notMem>>

SecretKey_from_mut_ptr == \E v \in MemScalars : Enter("from_mut_ptr", v, 0)

SecretKeyShare_from_mut_ptr ==
    \E v \in MemScalars : Enter("SecretKeyShare::from_mut_ptr", v, 0)

SecretKey_default == Enter("default", FrZero, 0)

SecretKey_rand == \E v \in MemDraws : Enter("rand", v, 0)

SecretKey_clone_shallow ==
    /\ op.step = "idle"
    /\ ~panicking
    /\ FreeKeyIds # {}
    /\ \E k \in LiveKeys : keys' = [keys EXCEPT ![NextKeyId] = keys[k]]
    /\ outcome' = Ok(NextKeyId)
    /\ UNCHANGED <<env, SHOULD_MLOCK_SECRETS, heap, allocated, locked, fr, op,
                   log, panicking, notMem>>
SecretKey_clone == \E k \in LiveKeys : Enter("clone", heap[keys[k]], k)

SecretKeySet_secret_key_share ==
    \E i \in MemIndices :
        Enter("secret_key_share", Poly_evaluate(MemPoly, into_fr_plus_1(i)), 0)

\* let mut boxed_fr = Box::new(Fr::zero());
Box_new ==
    /\ op.step = "alloc"
    /\ \E a \in Slots \ allocated :
        /\ allocated' = allocated \cup {a}
        /\ heap' = [heap EXCEPT ![a] = FrZero]
        /\ op' = [op EXCEPT !.slot = a, !.step = "copy"]
        /\ log' = Append(log, <<"alloc", a>>)
    /\ UNCHANGED <<env, SHOULD_MLOCK_SECRETS, locked, keys, fr, outcome,
                   panicking, notMem>>

\* copy_nonoverlapping(fr_ptr, &mut *boxed_fr as *mut Fr, 1);
copy_nonoverlapping ==
    /\ op.step = "copy"
    /\ heap' = [heap EXCEPT ![op.slot] = fr]
    /\ op' = [op EXCEPT !.step = "scrub"]
    /\ log' = Append(log, <<"copy", op.slot>>)
    /\ UNCHANGED <<env, SHOULD_MLOCK_SECRETS, allocated, locked, keys, fr,
                   outcome, panicking, notMem>>

write_volatile_sourceKept ==
    /\ op.step = "scrub"
    /\ op' = [op EXCEPT !.step = "lock"]
    /\ log' = Append(log, <<"scrub">>)
    /\ UNCHANGED <<env, SHOULD_MLOCK_SECRETS, heap, allocated, locked, keys,
                   fr, outcome, panicking, notMem>>
\* write_volatile(fr_ptr, Fr::zero());
write_volatile ==
    /\ op.step = "scrub"
    /\ fr' = FrZero
    /\ op' = [op EXCEPT !.step = "lock"]
    /\ log' = Append(log, <<"scrub">>)
    /\ UNCHANGED <<env, SHOULD_MLOCK_SECRETS, heap, allocated, locked, keys,
                   outcome, panicking, notMem>>

mlock_secret_memory_unchecked ==
    /\ op.step = "lock"
    /\ LET should == Deref(SHOULD_MLOCK_SECRETS, env)
       IN  /\ SHOULD_MLOCK_SECRETS' = Some(should)
           /\ IF ~should
              THEN /\ op' = [op EXCEPT !.step = "ret"]
                   /\ UNCHANGED <<locked, log>>
              ELSE \/ /\ locked' = locked \cup {PageOf(op.slot)}
                      /\ op' = [op EXCEPT !.step = "ret"]
                      /\ log' = Append(log, <<"mlock", op.slot, TRUE>>)
                   \/ \E e \in ErrNos :
                      /\ op' = [op EXCEPT !.step = "ret", !.err = e]
                      /\ log' = Append(log, <<"mlock", op.slot, FALSE>>)
                      /\ UNCHANGED locked
    /\ UNCHANGED <<env, heap, allocated, keys, fr, outcome, panicking,
                   notMem>>
\* sk.mlock_secret_memory()?  A refusal sends the constructor to drop(sk).
mlock_secret_memory ==
    /\ op.step = "lock"
    /\ LET should == Deref(SHOULD_MLOCK_SECRETS, env)
       IN  /\ SHOULD_MLOCK_SECRETS' = Some(should)
           /\ IF ~should
              THEN /\ op' = [op EXCEPT !.step = "ret"]
                   /\ UNCHANGED <<locked, log>>
              ELSE \/ /\ locked' = locked \cup {PageOf(op.slot)}
                      /\ op' = [op EXCEPT !.step = "ret"]
                      /\ log' = Append(log, <<"mlock", op.slot, TRUE>>)
                   \/ \E e \in ErrNos :
                      /\ op' = [op EXCEPT !.step = "zero", !.err = e]
                      /\ log' = Append(log, <<"mlock", op.slot, FALSE>>)
                      /\ UNCHANGED locked
    /\ UNCHANGED <<env, heap, allocated, keys, fr, outcome, panicking,
                   notMem>>

\* Ok(sk): the new key reaches the caller.
ReturnOk ==
    /\ op.step = "ret"
    /\ keys' = [keys EXCEPT ![NextKeyId] = op.slot]
    /\ outcome' = Ok(NextKeyId)
    /\ op' = NoOp
    /\ log' = <<>>
    /\ UNCHANGED <<env, SHOULD_MLOCK_SECRETS, heap, allocated, locked, fr,
                   panicking, notMem>>

\* A key leaves its scope, or is dropped while a panic unwinds.
SecretKey_drop ==
    /\ op.step = "idle"
    /\ \E k \in LiveKeys :
        /\ op' = [name |-> "drop", step |-> "zero", slot |-> keys[k],
                  orig |-> heap[keys[k]], key |-> k, err |-> "none"]
        /\ keys' = [keys EXCEPT ![k] = NoSlot]
    /\ log' = <<>>
    /\ outcome' = Unset
    /\ UNCHANGED <<env, SHOULD_MLOCK_SECRETS, heap, allocated, locked, fr,
                   panicking, notMem>>

zero_secret_memory_skipped ==
    /\ op.step = "zero"
    /\ op' = [op EXCEPT !.step = "unlock"]
    /\ UNCHANGED <<env, SHOULD_MLOCK_SECRETS, heap, allocated, locked, keys,
                   fr, log, outcome, panicking, notMem>>
\* self.zero_secret_memory();
zero_secret_memory ==
    /\ op.step = "zero"
    /\ heap' = [heap EXCEPT ![op.slot] = FrZero]
    /\ op' = [op EXCEPT !.step = "unlock"]
    /\ log' = Append(log, <<"memzero", op.slot>>)
    /\ UNCHANGED <<env, SHOULD_MLOCK_SECRETS, allocated, locked, keys, fr,
                   outcome, panicking, notMem>>

\* self.munlock_secret_memory(): a refusal panics, and a panic while the
\* thread is already unwinding aborts the process.
munlock_secret_memory ==
    /\ op.step = "unlock"
    /\ LET should == Deref(SHOULD_MLOCK_SECRETS, env)
       IN  /\ SHOULD_MLOCK_SECRETS' = Some(should)
           /\ IF ~should
              THEN /\ op' = [op EXCEPT !.step = "free"]
                   /\ UNCHANGED <<locked, log>>
              ELSE \/ /\ locked' = locked \ {PageOf(op.slot)}
                      /\ op' = [op EXCEPT !.step = "free"]
                      /\ log' = Append(log, <<"munlock", op.slot, TRUE>>)
                   \/ /\ op' = [op EXCEPT
                                  !.step = IF panicking THEN "abort"
                                           ELSE "free",
                                  !.err = "MunlockFailed"]
                      /\ log' = Append(log, <<"munlock", op.slot, FALSE>>)
                      /\ UNCHANGED locked
    /\ UNCHANGED <<env, heap, allocated, keys, fr, outcome, panicking,
                   notMem>>

\* What the operation that ends with the release of its Box hands back.
Completion(o) ==
    IF o.err = "MunlockFailed" THEN Panic("Failed to drop SecretKey")
    ELSE IF o.name = "drop" THEN Ok(0)
    ELSE IF o.name \in Fallible
         THEN Error_MlockFailed(o.err, o.slot, FrBytes)
    ELSE Panic("Failed to create SecretKey")

\* The Box is released; drop returns, from_mut_ptr returns its error, or the
\* panic goes up.
Box_free ==
    /\ op.step = "free"
    /\ allocated' = allocated \ {op.slot}
    /\ outcome' = Completion(op)
    /\ panicking' = (panicking \/ IsPanic(Completion(op)))
    /\ op' = NoOp
    /\ log' = <<>>
    /\ UNCHANGED <<env, SHOULD_MLOCK_SECRETS, heap, locked, keys, fr, notMem>>

MemNext ==
    \/ SetEnv
    \/ SecretKey_from_mut_ptr
    \/ SecretKeyShare_from_mut_ptr
    \/ SecretKey_default
    \/ SecretKey_rand
    \/ SecretKey_clone
    \/ SecretKeySet_secret_key_share
    \/ Box_new
    \/ copy_nonoverlapping
    \/ write_volatile
    \/ mlock_secret_memory
    \/ ReturnOk
    \/ SecretKey_drop
    \/ zero_secret_memory
    \/ munlock_secret_memory
    \/ Box_free

SpecMem == MemInit /\ [][MemNext]_vars

\* The calls the operation in progress has made, in order, without their
\* arguments.
Calls == [i \in 1..Len(log) |-> log[i][1]]
IsPrefix(s, t) == Len(s) <= Len(t) /\ \A i \in 1..Len(s) : s[i] = t[i]
ConstructorCalls == <<"alloc", "copy", "scrub", "mlock", "memzero", "munlock">>

(***************************************************************************)
(* C11 Constructor ordering and source scrubbing: from_mut_ptr, called     *)
(* directly or through SecretKeyShare::from_mut_ptr and the other          *)
(* constructors, allocates, copies the caller's scalar into the slot,      *)
(* zeroes the caller's scalar and only then requests the lock; when it     *)
(* returns, Ok or Err, the caller's scalar is zero, and when it returns Ok *)
(* the slot holds the value the caller's scalar held at the call.          *)
(***************************************************************************)
C11_ConstructorOrder ==
    /\ op.name \in Constructors =>
        /\ IsPrefix(Calls, ConstructorCalls)
        /\ op.step \in {"lock", "ret", "zero", "unlock", "free"}
               => fr = FrZero
        /\ op.step \in {"scrub", "lock", "ret"}
               => op.slot \in allocated /\ heap[op.slot] = op.orig
    /\ (op.step = "idle" /\ (IsOk(outcome) \/ outcome[1] = "Err"))
           => fr = FrZero

C11_Witness ==
    /\ op.name \in {"from_mut_ptr", "SecretKeyShare::from_mut_ptr"}
    /\ op.step = "ret"
    /\ op.orig # FrZero
    /\ Calls = <<"alloc", "copy", "scrub", "mlock">>
    /\ heap[op.slot] = op.orig
    /\ fr = FrZero

\* The error return: the lock was refused and the caller's scalar is zero.
C11_ErrPath ==
    /\ op.name = "from_mut_ptr"
    /\ op.step = "free"
    /\ op.orig # FrZero
    /\ fr = FrZero

\* The OS refused the lock request of the constructor in progress.
LockRefused ==
    /\ op.name \in Constructors
    /\ \E i \in 1..Len(log) : log[i] = <<"mlock", op.slot, FALSE>>
OwnedSlots == {keys[k] : k \in LiveKeys}

(***************************************************************************)
(* C12 as claimed: whenever the lock request fails during construction,    *)
(* the constructor, whichever it is, returns the error MlockFailed with    *)
(* errno, address and byte count to its caller, no SecretKey survives and  *)
(* the slot is zeroed before it is released.  Stated for the runs where the *)
(* dropped key's unlock request is granted.                                *)
(***************************************************************************)
C12_LockFailureAsClaimed ==
    [][(LockRefused /\ op.step = "free" /\ op.err \in ErrNos) =>
          /\ outcome' \in {Error_MlockFailed(e, op.slot, FrBytes) :
                              e \in ErrNos}
          /\ heap[op.slot] = FrZero
          /\ op.slot \notin {keys'[k] : k \in KeyIds}]_vars

(***************************************************************************)
(* C12 Lock failure leaves no secret behind: when the lock request fails   *)
(* during construction the key is dropped instead of returned, its slot is *)
(* zeroed before it is released and no SecretKey owns it afterwards;       *)
(* from_mut_ptr, SecretKeyShare::from_mut_ptr and secret_key_share return  *)
(* MlockFailed with the errno, the address and the byte count, whereas     *)
(* clone, default and rand panic, and so does any constructor whose        *)
(* dropped key's unlock request is refused as well.                        *)
(***************************************************************************)
C12_LockFailure ==
    [][LockRefused =>
          /\ op.step \in {"zero", "unlock", "free"}
          /\ op.slot \notin OwnedSlots
          /\ op.step = "free" =>
              /\ heap[op.slot] = FrZero
              /\ keys' = keys
              /\ op.slot \notin allocated'
              /\ IF op.err = "MunlockFailed" THEN IsPanic(outcome')
                 ELSE IF op.name \in Fallible
                      THEN outcome' = Error_MlockFailed(op.err, op.slot,
                                                        FrBytes)
                 ELSE IsPanic(outcome')]_vars

C12_Witness ==
    /\ op.name = "from_mut_ptr"
    /\ op.step = "free"
    /\ op.orig # FrZero
    /\ op.err = "ENOMEM"
    /\ Calls = <<"alloc", "copy", "scrub", "mlock", "memzero", "munlock">>
    /\ heap[op.slot] = FrZero

\* clone's lock request was refused: it is about to panic.
C12_ClonePanics ==
    /\ op.name = "clone"
    /\ op.step = "free"
    /\ op.err \in ErrNos
    /\ LockRefused

\* The operation in progress has asked the OS to lock or unlock.
OsCalled == \E i \in 1..Len(log) : log[i][1] \in {"mlock", "munlock"}

(***************************************************************************)
(* C13 MLOCK_SECRETS configuration: the first lock or unlock reads the     *)
(* variable and sets SHOULD_MLOCK_SECRETS, to FALSE if the variable holds  *)
(* "false" and to TRUE if it is unset or holds anything else; once set it  *)
(* never changes, whatever the variable is set to later; while it is FALSE *)
(* no operation asks the OS to lock or unlock, no page is locked, no       *)
(* constructor fails with MlockFailed and nothing panics.                  *)
(***************************************************************************)
C13_MlockSecretsConfig ==
    /\ [][/\ SHOULD_MLOCK_SECRETS # Unset
                => SHOULD_MLOCK_SECRETS' = SHOULD_MLOCK_SECRETS
          /\ (SHOULD_MLOCK_SECRETS = Unset /\ SHOULD_MLOCK_SECRETS' # Unset)
                => SHOULD_MLOCK_SECRETS' = Some(env # Some("false"))
          /\ (Len(log') > Len(log) /\ log'[Len(log')][1] \in {"mlock", "munlock"})
                => SHOULD_MLOCK_SECRETS' = Some(TRUE)]_vars
    /\ [](SHOULD_MLOCK_SECRETS = Some(FALSE) =>
            /\ ~OsCalled
            /\ locked = {}
            /\ outcome = Unset \/ IsOk(outcome)
            /\ ~panicking
            /\ op.step \notin {"zero", "unlock", "free"}
                   \/ op.name = "drop")

\* Locking was disabled at first use and the variable says "true" by now: a
\* key is dropped without any call to the OS.
C13_Witness ==
    /\ SHOULD_MLOCK_SECRETS = Some(FALSE)
    /\ env = Some("true")
    /\ op.name = "drop"
    /\ op.step = "free"
    /\ op.orig # FrZero
    /\ Calls = <<"memzero">>

\* An unrecognised value enables locking.
C13_Unrecognised ==
    /\ SHOULD_MLOCK_SECRETS = Some(TRUE)
    /\ env = Some("0")
    /\ outcome = Unset
    /\ op.step = "ret"
    /\ Calls = <<"alloc", "copy", "scrub", "mlock">>

(***************************************************************************)
(* Combined decryption of a ciphertext that was altered on its way: the    *)
(* participants answer with decrypt_share_no_verify and the shares         *)
(* collected so far are handed to PublicKeySet::decrypt.                   *)
(***************************************************************************)
Tamper ==
    /\ pc = "collect"
    /\ tct' \in Handed(tct) \ {tct}
    /\ pc' = "tampered"
    /\ UNCHANGED <<poly, pkSet, tmsg, shares, skShare, lastIdx, pkShare,
                   pkSetShare, shareOk, combined, firstSig, firstIdx,
                   masterOk, notSet>>

ShareDecryptNoVerify ==
    /\ pc = "tampered"
    /\ Len(shares) < SecretKeySet_threshold(poly) + 1
    /\ \E i \in Indices \ ShareIndices :
        LET sk == secret_key_share(poly, i)
        IN  /\ skShare' = sk
            /\ lastIdx' = i
            /\ shares' = Append(shares, <<i, decrypt_share_no_verify(sk, tct)>>)
    /\ UNCHANGED <<pc, poly, pkSet, tmsg, tct, pkShare, pkSetShare, shareOk,
                   combined, firstSig, firstIdx, masterOk, notSet>>

CombineUnverified ==
    /\ pc = "tampered"
    /\ combined' = PublicKeySet_decrypt(pkSet, shares, tct)
    /\ pc' = "decrypted"
    /\ UNCHANGED <<poly, pkSet, tmsg, tct, shares, skShare, lastIdx, pkShare,
                   pkSetShare, shareOk, firstSig, firstIdx, masterOk, notSet>>

SetTamperNext ==
    \/ PublicKeys
    \/ EncryptToMaster
    \/ Tamper
    \/ ShareDecryptNoVerify
    \/ CombineUnverified

SpecSetTamper == SetInit /\ [][SetTamperNext]_vars

(***************************************************************************)
(* C14 Validity check before combined decryption: PublicKeySet::decrypt    *)
(* yields no plaintext for a ciphertext whose verify() is false, whatever  *)
(* decryption shares it is given.  Stated for ciphertexts whose u is not   *)
(* the identity.                                                           *)
(***************************************************************************)
C14_NoPlaintextForInvalid ==
    (pc = "decrypted" /\ ~Ciphertext_verify(tct) /\ tct.u # G1Zero)
        => ~IsOk(combined)

\* PublicKeySet::decrypt returns the message itself for a ciphertext whose
\* w was replaced and whose verify() is false.
C14_PlaintextOfInvalid ==
    /\ pc = "decrypted"
    /\ ~Ciphertext_verify(tct)
    /\ tct.u # G1Zero
    /\ Len(shares) = SecretKeySet_threshold(poly) + 1
    /\ combined = Ok(tmsg)

(***************************************************************************)
(* C15 Live secrets are always locked: with locking enabled, after a drop  *)
(* has returned the page of every SecretKey that is still live is locked.  *)
(***************************************************************************)
C15_LiveSecretsLocked ==
    (SHOULD_MLOCK_SECRETS = Some(TRUE) /\ op.step = "idle" /\ outcome = Ok(0))
        => \A k \in LiveKeys : PageOf(keys[k]) \in locked

\* A constructor's error return: the drop of the key that could not be locked
\* unlocked the page of a live key.
C15_UnlockedByFailedSibling ==
    /\ SHOULD_MLOCK_SECRETS = Some(TRUE)
    /\ op.step = "idle"
    /\ outcome[1] = "Err"
    /\ \E k \in LiveKeys :
        /\ heap[keys[k]] # FrZero
        /\ PageOf(keys[k]) \notin locked

\* Two keys on one page, one of them dropped: the other is live and its page
\* is no longer locked.
C15_UnlockedBySibling ==
    /\ SHOULD_MLOCK_SECRETS = Some(TRUE)
    /\ op.step = "idle"
    /\ outcome = Ok(0)
    /\ \E k \in LiveKeys :
        /\ heap[keys[k]] # FrZero
        /\ PageOf(keys[k]) \notin locked

\* The calls the operation in progress made on its slot from zeroing on.
DropCalls == SelectSeq(Calls, LAMBDA c : c \in {"memzero", "munlock", "free"})

\* The key being destroyed is zeroed first and then, if locking is enabled,
\* its unlock is requested, each once; its slot is zero when it is released,
\* and so is every released slot.
DestroyedInOrder ==
    /\ op.step = "unlock" => DropCalls = <<"memzero">>
    /\ op.step \in {"free", "abort"} =>
        /\ DropCalls = IF SHOULD_MLOCK_SECRETS = Some(TRUE)
                       THEN <<"memzero", "munlock">>
                       ELSE <<"memzero">>
        /\ log[Len(log)][2] = op.slot
        /\ heap[op.slot] = FrZero
    /\ \A a \in Slots \ allocated : heap[a] = FrZero

(***************************************************************************)
(* C16 as claimed: a destroyed key's slot is zeroed and then unlocked,     *)
(* each once, it is zero afterwards, and an unlock is only ever requested  *)
(* for a slot whose lock request succeeded.                                *)
(***************************************************************************)
C16_DestructionAsClaimed ==
    /\ DestroyedInOrder
    /\ \A i \in 1..Len(log) :
        log[i][1] = "munlock" =>
            ~\E j \in 1..Len(log) : log[j] = <<"mlock", log[i][2], FALSE>>

(***************************************************************************)
(* C16 Destruction ordering: whenever a SecretKey is destroyed, by a drop  *)
(* at the end of its scope, by a constructor's error return or while a     *)
(* panic unwinds, its slot is zeroed first and then, if locking is         *)
(* enabled, its unlock is requested, each once, also when the key's lock   *)
(* request had been refused; the slot is zero when it is released and      *)
(* every released slot stays zero; a refused unlock ends in a panic.       *)
(***************************************************************************)
C16_DestructionOrder ==
    /\ []DestroyedInOrder
    /\ [][/\ (op.step = "unlock" /\ op'.err = "MunlockFailed")
                => op'.step = IF panicking THEN "abort" ELSE "free"
          /\ (op.step = "free" /\ op.err = "MunlockFailed")
                => IsPanic(outcome') /\ panicking']_vars

C16_Witness ==
    /\ op.name = "drop"
    /\ op.step = "free"
    /\ op.orig # FrZero
    /\ panicking
    /\ log = <<<<"memzero", op.slot>>, <<"munlock", op.slot, TRUE>>>>
    /\ heap[op.slot] = FrZero

\* The unlock of a key whose lock request was refused.
C16_UnlockAfterRefusedLock ==
    /\ op.name \in Constructors
    /\ op.step = "free"
    /\ Calls = <<"alloc", "copy", "scrub", "mlock", "memzero", "munlock">>
    /\ log[4] = <<"mlock", op.slot, FALSE>>

(***************************************************************************)
(* C17 Slot ownership: every live SecretKey owns one allocated slot and no *)
(* two live keys, nor a live key and the key under construction, own the   *)
(* same slot; a clone gets a slot of its own that holds the original's     *)
(* value and, if locking is enabled, is locked; and no step of any         *)
(* operation, a drop of another key included, changes the slot or the      *)
(* value of a key that stays live.                                         *)
(***************************************************************************)
C17_SlotOwnership ==
    /\ [](/\ \A k \in LiveKeys : keys[k] \in allocated
          /\ \A j, k \in LiveKeys : keys[j] = keys[k] => j = k
          /\ (op.name \in Constructors \cup {"drop"} /\ op.slot # NoSlot)
                => op.slot \in allocated \ OwnedSlots
          /\ (op.name = "clone" /\ op.step = "ret") =>
                /\ op.key \in LiveKeys
                /\ op.slot # keys[op.key]
                /\ heap[op.slot] = heap[keys[op.key]]
                /\ public_key(heap[op.slot]) = public_key(heap[keys[op.key]])
                /\ SHOULD_MLOCK_SECRETS = Some(TRUE)
                       => PageOf(op.slot) \in locked)
    /\ [][\A k \in LiveKeys :
            keys'[k] # NoSlot =>
                /\ keys'[k] = keys[k]
                /\ heap'[keys[k]] = heap[keys[k]]]_vars

\* The original was dropped and its clone lives on with the value.
C17_Witness ==
    /\ op.name = "drop"
    /\ op.step = "free"
    /\ op.orig # FrZero
    /\ heap[op.slot] = FrZero
    /\ \E k \in LiveKeys :
        /\ heap[keys[k]] = op.orig
        /\ keys[k] # op.slot
        /\ PageOf(keys[k]) = PageOf(op.slot)

====
